---- MODULE Spec2Model ----
(***************************************************************************)
(* A model of queue.c: a singly linked queue of strings with a head and a  *)
(* tail anchor and a maintained element count.  The heap of list_ele_t     *)
(* cells is explicit, so that stale anchors, leaked cells and accesses to  *)
(* released cells are states of the model.                                 *)
(*                                                                         *)
(* Released memory.  A released cell keeps the next-link that was last     *)
(* written to it; an operation that touches a released cell (reads it,     *)
(* writes it or releases it again) either runs on with that stale content  *)
(* or faults.  The string behind a released cell is indeterminate: a read  *)
(* of it yields any string.                                                *)
(***************************************************************************)
EXTENDS Integers, Sequences, FiniteSets, TLC

\* ------------------------------------------------------------------ bounds
\* Number of list_ele_t cells the allocator can hand out.
MaxNodes == 3
\* Largest bufsize a caller passes to q_remove_head.
MaxBufSize == 2
\* Width in bits of size_t in the model (the arithmetic is modulo 2^SizeBits).
SizeBits == 4
\* Longest chain handed to the split step of mergeSortList on its own.
MaxChain == 5

\* ------------------------------------------------------------------ values
NULL == 0
Addr == 1..MaxNodes
Ptr == Addr \cup {NULL}
\* The bytes a caller's string is made of (none is the terminator 0).
Char == {1, 2}
\* The strings a caller inserts: "a", "ab" and "b".
Str == {<<1>>, <<1, 2>>, <<2>>}
SizeMod == 2 ^ SizeBits
\* More loop iterations than this over the cells means a cycle is being followed.
Fuel == 2 * MaxNodes + 2

Min(a, b) == IF a < b THEN a ELSE b
Max(a, b) == IF a > b THEN a ELSE b

\* ------------------------------------------------------------------ <string.h>
\* strlen: the number of bytes before the first terminator.
RECURSIVE strlen(_)
strlen(b) == IF b = <<>> \/ Head(b) = 0 THEN 0 ELSE 1 + strlen(Tail(b))

\* The C string held in a byte buffer.
CString(b) == SubSeq(b, 1, strlen(b))

\* memset(buf, '\0', n): n zero bytes from offset 0; the bytes of buf beyond stay.
memset0(buf, n) == [i \in 1..Max(Len(buf), n) |-> IF i <= n THEN 0 ELSE buf[i]]

\* strncpy(buf, src, n): exactly n bytes are written from offset 0, the bytes of
\* src up to its terminator and then zero padding.
strncpy(buf, src, n) ==
    [i \in 1..Max(Len(buf), n) |->
        IF i <= n THEN (IF i <= strlen(src) THEN src[i] ELSE 0) ELSE buf[i]]

\* strcmp: negative, zero or positive.
RECURSIVE strcmp(_, _)
strcmp(a, b) ==
    IF a = <<>> /\ b = <<>> THEN 0
    ELSE IF a = <<>> THEN -1
    ELSE IF b = <<>> THEN 1
    ELSE IF Head(a) # Head(b) THEN Head(a) - Head(b)
    ELSE strcmp(Tail(a), Tail(b))

\* ------------------------------------------------------------------ state
VARIABLES
    qs,        \* the caller's queue_t pointer: "null", "live" or "freed"
    head,      \* q->head
    tail,      \* q->tail
    size,      \* q->size
    next,      \* next[a]: the next field of cell a (stale when a is released)
    value,     \* value[a]: the string of cell a (<<>> when a is released)
    nodes,     \* the allocated list_ele_t cells
    bufs,      \* the cells whose value buffer is allocated
    status,    \* "ok", "crashed" (fault) or "hung" (a loop that never ends)
    uaf,       \* the last operation touched a released cell
    lastOp,    \* the operation that ran last
    ret,       \* its boolean result (FALSE for a void operation)
    rsize,     \* the result of q_size when it ran last, else 0
    sp,        \* the bytes the last operation wrote to the caller's buffer
    spcap,     \* the bufsize passed to q_remove_head with a buffer, else -1
    mfail,     \* the malloc that failed in the last call: "none", "node", "value"
    net,       \* successful insertions minus successful removals
    rtPhase,   \* round-trip monitor: "idle", "insert" or "remove"
    rtPending, \* the values a round trip has inserted and not yet removed
    fastHalf   \* mergeSortList's fast after its split step (SplitSpec), else NULL

vars == <<qs, head, tail, size, next, value, nodes, bufs, status, uaf,
          lastOp, ret, rsize, sp, spcap, mfail, net, rtPhase, rtPending, fastHalf>>

\* The container and the heap as one value, for the operations below.
Cur ==
    [head |-> head, tail |-> tail, size |-> size, next |-> next,
     value |-> value, nodes |-> nodes, bufs |-> bufs]

\* What an operation hands back: the new container and heap, the boolean
\* result, whether a released cell was touched, and "none", "segv" or "loop".
Result(c, r, u, f) == [c |-> c, ret |-> r, uaf |-> u, fault |-> f]

\* ------------------------------------------------------------------ q_new
q_new(ok) ==
    IF ok THEN "live" ELSE "null"

\* ------------------------------------------------------------------ malloc
\* Cell a is referred to by an anchor or by the next field of some cell.
Referenced(c, a) ==
    a \in {c.head, c.tail} \/ \E b \in Addr : c.next[b] = a

\* What malloc(sizeof(list_ele_t)) may return: NULL, or a cell that is not
\* allocated.  A stale pointer tells the released cells it refers to apart;
\* the others are alike (their content is overwritten before it is read), so
\* the lowest stands for them all.
Malloc(c) ==
    LET free == Addr \ c.nodes
        stale == {a \in free : Referenced(c, a)}
        fresh == free \ stale
    IN  {NULL} \cup stale \cup {a \in fresh : \A b \in fresh : a <= b}

\* ------------------------------------------------------------------ insertion
\* The deep copy of s: memset of strlen(s) + 1 bytes, then strncpy of strlen(s).
CopyString(s) ==
    CString(strncpy(memset0(<<>>, strlen(s) + 1), s, strlen(s)))

\* The loop `while (q->tail->next) q->tail = q->tail->next;` from cell t.
RECURSIVE TailWalk(_, _, _)
TailWalk(c, t, fuel) ==
    IF t = NULL THEN [tail |-> t, uaf |-> FALSE, fault |-> "segv"]
    ELSE IF fuel = 0 THEN [tail |-> t, uaf |-> FALSE, fault |-> "loop"]
    ELSE [(IF c.next[t] = NULL
           THEN [tail |-> t, uaf |-> FALSE, fault |-> "none"]
           ELSE TailWalk(c, c.next[t], fuel - 1))
          EXCEPT !.uaf = @ \/ t \notin c.nodes]

\* InsertValueFail without `free(newh)`.
InsertValueFailLeaks(c, newh) ==
    c

\* The value buffer could not be allocated: the new cell is released again.
InsertValueFail(c, newh) ==
    [c EXCEPT !.nodes = @ \ {newh}]

\* The tail anchor after the new cell is at head: `if (q->tail == NULL) ... else
\* while (q->tail->next) ...`, then `q->size += 1`.
InsertHeadTail(c, w) ==
    IF c.tail = NULL
    THEN Result([c EXCEPT !.tail = c.head, !.size = @ + 1], TRUE, FALSE, "none")
    ELSE Result([c EXCEPT !.tail = w.tail, !.size = @ + 1], TRUE, w.uaf, w.fault)

\* The new cell, holding a copy of s, is linked in front of head.
InsertHeadLink(c, s, newh) ==
    [c EXCEPT !.nodes = @ \cup {newh}, !.bufs = @ \cup {newh},
              !.value[newh] = CopyString(s),
              !.next[newh] = c.head, !.head = newh]

InsertHeadWalk(c) ==
    InsertHeadTail(c, TailWalk(c, c.tail, Fuel))

\* q_insert_head on a non-null queue; newh is what malloc returned for the
\* cell (NULL: it failed), vok whether the value buffer could be allocated.
q_insert_head(c, s, newh, vok) ==
    IF newh = NULL THEN Result(c, FALSE, FALSE, "none")
    ELSE IF ~vok
         THEN Result(InsertValueFail([c EXCEPT !.nodes = @ \cup {newh}], newh),
                     FALSE, FALSE, "none")
    ELSE InsertHeadWalk(InsertHeadLink(c, s, newh))

\* The new cell, holding a copy of s and no next-link.
InsertTailCell(c, s, newt) ==
    [c EXCEPT !.nodes = @ \cup {newt}, !.bufs = @ \cup {newt},
              !.value[newt] = CopyString(s), !.next[newt] = NULL]

\* The new cell is linked behind tail: `if (q->tail == NULL) ... else ...`,
\* then `q->size += 1`.
InsertTailLink(c, newt) ==
    IF c.tail = NULL
    THEN Result([c EXCEPT !.tail = newt, !.head = newt, !.size = @ + 1],
                TRUE, FALSE, "none")
    ELSE Result([c EXCEPT !.next[c.tail] = newt, !.tail = newt, !.size = @ + 1],
                TRUE, c.tail \notin c.nodes, "none")

\* q_insert_tail on a non-null queue.
q_insert_tail(c, s, newt, vok) ==
    IF newt = NULL THEN Result(c, FALSE, FALSE, "none")
    ELSE IF ~vok
         THEN Result(InsertValueFail([c EXCEPT !.nodes = @ \cup {newt}], newt),
                     FALSE, FALSE, "none")
    ELSE InsertTailLink(InsertTailCell(c, s, newt), newt)

\* ------------------------------------------------------------------ q_remove_head
\* realbufsize of q_remove_head, in size_t arithmetic.
realbufsize(bufsize, len) ==
    IF bufsize > len THEN len ELSE (bufsize - 1) % SizeMod

\* The bytes q_remove_head writes to sp: memset of realbufsize + 1 bytes, then
\* strncpy of realbufsize bytes.
CopyOut(v, bufsize) ==
    strncpy(memset0(<<>>, (realbufsize(bufsize, strlen(v)) + 1) % SizeMod),
            v, realbufsize(bufsize, strlen(v)))

\* DetachHead without `q->size -= 1`.
DetachHeadKeepsCount(c) ==
    LET tmp == c.head
    IN  [c EXCEPT !.head = c.next[tmp], !.next[tmp] = NULL,
                  !.value[tmp] = <<>>, !.bufs = @ \ {tmp},
                  !.nodes = @ \ {tmp}]

\* The head cell is unlinked and released, and the count decremented.
DetachHead(c) ==
    LET tmp == c.head
    IN  [c EXCEPT !.head = c.next[tmp], !.next[tmp] = NULL,
                  !.value[tmp] = <<>>, !.bufs = @ \ {tmp},
                  !.nodes = @ \ {tmp}, !.size = @ - 1]

\* q_remove_head that terminates the caller's buffer before it looks at head.
q_remove_head_ClearsFirst(c, given, bufsize, gv) ==
    IF c.head = NULL
    THEN [c |-> c, ret |-> FALSE, uaf |-> FALSE, fault |-> "none",
          out |-> IF given THEN <<0>> ELSE <<>>]
    ELSE LET live == c.head \in c.nodes
             v == IF live THEN c.value[c.head] ELSE gv
         IN  [c |-> DetachHead(c), ret |-> TRUE, uaf |-> ~live, fault |-> "none",
              out |-> IF given THEN CopyOut(v, bufsize) ELSE <<>>]

\* q_remove_head on a non-null queue; given: sp is not NULL; gv: the string
\* read behind the head cell when that cell is a released one.
q_remove_head(c, given, bufsize, gv) ==
    IF c.head = NULL
    THEN [c |-> c, ret |-> FALSE, uaf |-> FALSE, fault |-> "none", out |-> <<>>]
    ELSE LET live == c.head \in c.nodes
             v == IF live THEN c.value[c.head] ELSE gv
         IN  [c |-> DetachHead(c), ret |-> TRUE, uaf |-> ~live, fault |-> "none",
              out |-> IF given THEN CopyOut(v, bufsize) ELSE <<>>]

\* ------------------------------------------------------------------ q_size
q_size(isnull, c) ==
    IF isnull THEN 0 ELSE c.size

\* ------------------------------------------------------------------ q_reverse
\* The loop `while (next != NULL)` of q_reverse.
RECURSIVE ReverseLoop(_, _, _, _, _, _)
ReverseLoop(c, prev, now, nxt, u, fuel) ==
    IF nxt = NULL THEN Result(c, FALSE, u, "none")
    ELSE IF fuel = 0 THEN Result(c, FALSE, u, "loop")
    ELSE ReverseLoop([c EXCEPT !.next[nxt] = now], now, nxt, c.next[nxt],
                     u \/ nxt \notin c.nodes, fuel - 1)

\* q_reverse without the return for a single cell: `q->head->next->next` is then
\* read through a NULL pointer.
q_reverse_NoSingleCheck(c) ==
    IF c.head = NULL THEN Result(c, FALSE, FALSE, "none")
    ELSE LET prev == c.head
             now == c.next[prev]
             u0 == prev \notin c.nodes
         IN  IF now = NULL THEN Result(c, FALSE, u0, "segv")
             ELSE ReverseLoop([c EXCEPT !.head = c.tail, !.tail = prev,
                                        !.next[prev] = NULL, !.next[now] = prev],
                              prev, now, c.next[now],
                              u0 \/ now \notin c.nodes, Fuel)

\* q_reverse on a non-null queue.
q_reverse(c) ==
    IF c.head = NULL THEN Result(c, FALSE, FALSE, "none")
    ELSE LET prev == c.head
             now == c.next[prev]
             u0 == prev \notin c.nodes
         IN  IF now = NULL THEN Result(c, FALSE, u0, "none")
             ELSE ReverseLoop([c EXCEPT !.head = c.tail, !.tail = prev,
                                        !.next[prev] = NULL, !.next[now] = prev],
                              prev, now, c.next[now],
                              u0 \/ now \notin c.nodes, Fuel)

\* ------------------------------------------------------------------ q_sort
\* The string behind cell p; gv gives it for the released cells.
ValueAt(c, gv, p) ==
    IF p \in c.nodes THEN c.value[p] ELSE gv[p]

\* What merge and mergeSortList hand back: the heap, the returned pointer p,
\* whether a released cell was touched, and the fault.
Sorted(c, p, u, f) == [c |-> c, p |-> p, uaf |-> u, fault |-> f]

\* `l->next = merge(...); return l;` with r what the inner merge returned.
MergeLink(r, l, u) ==
    Sorted([r.c EXCEPT !.next[l] = r.p], l, r.uaf \/ u, r.fault)

\* merge that never compares: the cell of l2 always goes first.
RECURSIVE merge_SecondFirst(_, _, _, _, _)
merge_SecondFirst(c, gv, l1, l2, fuel) ==
    IF l1 = NULL THEN Sorted(c, l2, FALSE, "none")
    ELSE IF l2 = NULL THEN Sorted(c, l1, FALSE, "none")
    ELSE IF fuel = 0 THEN Sorted(c, NULL, FALSE, "segv")
    ELSE MergeLink(merge_SecondFirst(c, gv, l1, c.next[l2], fuel - 1), l2,
                   l1 \notin c.nodes \/ l2 \notin c.nodes)

\* merge(l1, l2); recursion deeper than the cells there are never returns.
RECURSIVE merge(_, _, _, _, _)
merge(c, gv, l1, l2, fuel) ==
    IF l1 = NULL THEN Sorted(c, l2, FALSE, "none")
    ELSE IF l2 = NULL THEN Sorted(c, l1, FALSE, "none")
    ELSE IF fuel = 0 THEN Sorted(c, NULL, FALSE, "segv")
    ELSE LET u == l1 \notin c.nodes \/ l2 \notin c.nodes
             result == strcmp(ValueAt(c, gv, l1), ValueAt(c, gv, l2))
         IN  IF result < 0
             THEN MergeLink(merge(c, gv, c.next[l1], l2, fuel - 1), l1, u)
             ELSE MergeLink(merge(c, gv, l1, c.next[l2], fuel - 1), l2, u)

\* The split loop `while (fast && fast->next)`: the cell slow stops at.
RECURSIVE SplitLoop(_, _, _, _, _)
SplitLoop(c, slow, fast, u, fuel) ==
    IF fast = NULL THEN [slow |-> slow, uaf |-> u, fault |-> "none"]
    ELSE IF c.next[fast] = NULL
         THEN [slow |-> slow, uaf |-> u \/ fast \notin c.nodes, fault |-> "none"]
    ELSE IF fuel = 0 THEN [slow |-> slow, uaf |-> u, fault |-> "loop"]
    ELSE IF c.next[slow] = NULL THEN [slow |-> slow, uaf |-> u, fault |-> "segv"]
    ELSE SplitLoop(c, c.next[slow], c.next[c.next[fast]],
                   u \/ fast \notin c.nodes \/ slow \notin c.nodes
                     \/ c.next[fast] \notin c.nodes,
                   fuel - 1)

\* The two halves the split step leaves: the heap with slow->next cleared, and
\* the heads of the first and of the second half.
SplitAt(c, h, s) ==
    [c |-> [c EXCEPT !.next[s.slow] = NULL], l1 |-> h, l2 |-> c.next[s.slow],
     uaf |-> s.uaf \/ s.slow \notin c.nodes, fault |-> s.fault]

\* Split with fast starting at head instead of head->next.
SplitFromHead(c, h) ==
    SplitAt(c, h, SplitLoop(c, h, h, h \notin c.nodes, Fuel))

Split(c, h) ==
    SplitAt(c, h, SplitLoop(c, h, c.next[h], h \notin c.nodes, Fuel))

\* SortMerge that returns the second half alone: the cells of l1 are lost.
SortMergeDropsFirst(gv, s, l1, l2) ==
    Sorted(l2.c, l2.p, s.uaf \/ l1.uaf \/ l2.uaf, l2.fault)

\* `return merge(l1, l2);` with l1 and l2 what the two recursive calls returned.
SortMerge(gv, s, l1, l2) ==
    IF l2.fault # "none"
    THEN Sorted(l2.c, NULL, s.uaf \/ l1.uaf \/ l2.uaf, l2.fault)
    ELSE [merge(l2.c, gv, l1.p, l2.p, Fuel)
          EXCEPT !.uaf = @ \/ s.uaf \/ l1.uaf \/ l2.uaf]

\* mergeSortList that hands the chain back as it got it.
mergeSortList_NoSort(c, gv, h, fuel) ==
    Sorted(c, h, FALSE, "none")

RECURSIVE mergeSortList(_, _, _, _)
\* `list_ele_t *l2 = mergeSortList(fast);`
SortSecond(gv, s, l1, fuel) ==
    IF l1.fault # "none" THEN Sorted(l1.c, NULL, s.uaf \/ l1.uaf, l1.fault)
    ELSE SortMerge(gv, s, l1, mergeSortList(l1.c, gv, s.l2, fuel))

\* `list_ele_t *l1 = mergeSortList(head);`
SortFirst(gv, s, fuel) ==
    IF s.fault # "none" THEN Sorted(s.c, NULL, s.uaf, s.fault)
    ELSE SortSecond(gv, s, mergeSortList(s.c, gv, s.l1, fuel), fuel)

mergeSortList(c, gv, h, fuel) ==
    IF h = NULL THEN Sorted(c, h, FALSE, "none")
    ELSE IF c.next[h] = NULL THEN Sorted(c, h, h \notin c.nodes, "none")
    ELSE IF fuel = 0 THEN Sorted(c, NULL, FALSE, "segv")
    ELSE SortFirst(gv, Split(c, h), fuel - 1)

\* The tail anchor after the sort: `while (q->tail->next) ...`.
SortTail(c, w, u) ==
    Result([c EXCEPT !.tail = w.tail], FALSE, u \/ w.uaf, w.fault)

SortHead(m) ==
    IF m.fault # "none" THEN Result(m.c, FALSE, m.uaf, m.fault)
    ELSE SortTail([m.c EXCEPT !.head = m.p],
                  TailWalk([m.c EXCEPT !.head = m.p], m.c.tail, Fuel), m.uaf)

\* q_sort on a non-null queue.
q_sort(c, gv) ==
    IF c.head = c.tail THEN Result(c, FALSE, FALSE, "none")
    ELSE SortHead(mergeSortList(c, gv, c.head, Fuel))

\* ------------------------------------------------------------------ q_free
\* The loop `while (q->head)` of q_free.
RECURSIVE FreeLoop(_, _, _)
FreeLoop(c, u, fuel) ==
    IF c.head = NULL THEN Result(c, FALSE, u, "none")
    ELSE IF fuel = 0 THEN Result(c, FALSE, u, "loop")
    ELSE FreeLoop([DetachHead(c) EXCEPT !.size = c.size],
                  u \/ c.head \notin c.nodes, fuel - 1)

\* q_free on a non-null queue: every cell on the chain from head is released.
q_free(c) ==
    FreeLoop(c, FALSE, Fuel)

\* ------------------------------------------------------------------ the caller
heapvars == <<head, tail, size, next, value, nodes, bufs>>

\* The cells a chain of next-links from p leads through.
RECURSIVE ReachFrom(_, _, _)
ReachFrom(c, p, fuel) ==
    IF p = NULL \/ fuel = 0 THEN {}
    ELSE {p} \cup ReachFrom(c, c.next[p], fuel - 1)

\* No operation reads a cell that neither the chain from head nor the chain
\* from tail leads to (malloc's result is written before it is read), so the
\* state keeps the content of the other cells as NULL and <<>>: what is kept of
\* them is whether they are allocated.
Scrub(c) ==
    LET reach == ReachFrom(c, c.head, Fuel) \cup ReachFrom(c, c.tail, Fuel)
    IN  [c EXCEPT !.next = [a \in Addr |-> IF a \in reach THEN c.next[a] ELSE NULL],
                  !.value = [a \in Addr |-> IF a \in reach THEN c.value[a] ELSE <<>>]]

SetHeap(c) ==
    \E k \in {Scrub(c)} :
        /\ head' = k.head /\ tail' = k.tail /\ size' = k.size
        /\ next' = k.next /\ value' = k.value
        /\ nodes' = k.nodes /\ bufs' = k.bufs

\* What the caller sees of the call that just returned, and the malloc that
\* failed in it.
ObserveAlloc(op, r, n, out, cap, mf) ==
    /\ lastOp' = op /\ ret' = r /\ rsize' = n /\ sp' = out /\ spcap' = cap
    /\ mfail' = mf

Observe(op, r, n, out, cap) ==
    ObserveAlloc(op, r, n, out, cap, "none")

\* Which malloc of an insertion failed: the cell's (NULL returned) or the
\* value buffer's.
FailedAlloc(p, vok) ==
    IF qs = "null" THEN "none"
    ELSE IF p = NULL THEN "node"
    ELSE IF ~vok THEN "value"
    ELSE "none"

Ghost(n, ph, pend) ==
    /\ net' = n /\ rtPhase' = ph /\ rtPending' = pend
    /\ UNCHANGED fastHalf

\* The operation ran to its end and returned.
Returns(r) ==
    /\ r.fault = "none"
    /\ status' = "ok"
    /\ uaf' = r.uaf
    /\ SetHeap(r.c)

\* The operation did not return: it faulted (always a possible end of touching a
\* released cell) or follows a cycle of links for ever.
Stops(op, r) ==
    /\ r.fault # "none" \/ r.uaf
    /\ status' \in ((IF r.fault = "loop" THEN {"hung"} ELSE {"crashed"})
                      \cup (IF r.uaf THEN {"crashed"} ELSE {}))
    /\ uaf' = r.uaf
    /\ Observe(op, FALSE, 0, <<>>, -1)
    /\ UNCHANGED <<qs, heapvars, net, rtPhase, rtPending, fastHalf>>

\* The operation of a null queue: nothing is touched.
Null(r) == Result(Cur, r, FALSE, "none")

\* The released cells on the chain from p: their strings are indeterminate.
RECURSIVE StaleOn(_, _, _)
StaleOn(c, p, fuel) ==
    IF p = NULL \/ fuel = 0 THEN {}
    ELSE (IF p \in c.nodes THEN {} ELSE {p}) \cup StaleOn(c, c.next[p], fuel - 1)

Init ==
    /\ qs \in {q_new(TRUE), q_new(FALSE)}
    /\ head = NULL /\ tail = NULL /\ size = 0
    /\ next = [a \in Addr |-> NULL]
    /\ value = [a \in Addr |-> <<>>]
    /\ nodes = {} /\ bufs = {}
    /\ status = "ok" /\ uaf = FALSE
    /\ lastOp = "q_new" /\ ret = FALSE /\ rsize = 0 /\ sp = <<>> /\ spcap = -1 /\ mfail = "none"
    /\ net = 0 /\ rtPhase = "idle" /\ rtPending = <<>>
    /\ fastHalf = NULL

Q_insert_head ==
    /\ status = "ok" /\ qs # "freed"
    /\ \E s \in Str, newh \in Malloc(Cur), vok \in BOOLEAN :
         \E r \in {IF qs = "null" THEN Null(FALSE)
                  ELSE q_insert_head(Cur, s, newh, vok)} :
             \/ /\ Returns(r)
                /\ ObserveAlloc("q_insert_head", r.ret, 0, <<>>, -1,
                                FailedAlloc(newh, vok))
                /\ Ghost(IF r.ret THEN net + 1 ELSE net, "idle", <<>>)
                /\ UNCHANGED qs
             \/ Stops("q_insert_head", r)

\* The round trip q_insert_tail continues or starts: it starts on a count of 0.
TripInsert(ok, s) ==
    IF ~ok THEN <<"idle", <<>>>>
    ELSE IF size = 0 THEN <<"insert", <<s>>>>
    ELSE IF rtPhase = "insert" THEN <<"insert", Append(rtPending, s)>>
    ELSE <<"idle", <<>>>>

Q_insert_tail ==
    /\ status = "ok" /\ qs # "freed"
    /\ \E s \in Str, newt \in Malloc(Cur), vok \in BOOLEAN :
         \E r \in {IF qs = "null" THEN Null(FALSE)
                  ELSE q_insert_tail(Cur, s, newt, vok)} :
             \/ /\ Returns(r)
                /\ ObserveAlloc("q_insert_tail", r.ret, 0, <<>>, -1,
                                FailedAlloc(newt, vok))
                /\ Ghost(IF r.ret THEN net + 1 ELSE net,
                         TripInsert(r.ret, s)[1], TripInsert(r.ret, s)[2])
                /\ UNCHANGED qs
             \/ Stops("q_insert_tail", r)

\* The round trip after a q_remove_head: one value fewer is pending.
TripRemove ==
    IF rtPhase \in {"insert", "remove"} /\ Len(rtPending) > 1
    THEN <<"remove", Tail(rtPending)>>
    ELSE <<"idle", <<>>>>

Q_remove_head ==
    /\ status = "ok" /\ qs # "freed"
    /\ \E given \in BOOLEAN, bufsize \in 0..MaxBufSize,
          gv \in (IF head \in Addr \ nodes THEN Str ELSE {<<>>}) :
         \E r \in {IF qs = "null"
                  THEN [c |-> Cur, ret |-> FALSE, uaf |-> FALSE, fault |-> "none",
                        out |-> <<>>]
                  ELSE q_remove_head(Cur, given, bufsize, gv)} :
             /\ given \/ bufsize = 0
             /\ \/ /\ Returns(r)
                   /\ Observe("q_remove_head", r.ret, 0, r.out,
                              IF given THEN bufsize ELSE -1)
                   /\ Ghost(IF r.ret THEN net - 1 ELSE net,
                            TripRemove[1], TripRemove[2])
                   /\ UNCHANGED qs
                \/ Stops("q_remove_head", r)

Q_size ==
    /\ status = "ok" /\ qs # "freed"
    /\ Observe("q_size", FALSE, q_size(qs = "null", Cur), <<>>, -1)
    /\ Ghost(net, "idle", <<>>)
    /\ uaf' = FALSE
    /\ UNCHANGED <<qs, heapvars, status>>

Q_reverse ==
    /\ status = "ok" /\ qs # "freed"
    /\ \E r \in {IF qs = "null" THEN Null(FALSE) ELSE q_reverse(Cur)} :
           \/ /\ Returns(r)
              /\ Observe("q_reverse", FALSE, 0, <<>>, -1)
              /\ Ghost(net, "idle", <<>>)
              /\ UNCHANGED qs
           \/ Stops("q_reverse", r)

Q_sort ==
    /\ status = "ok" /\ qs # "freed"
    /\ \E gv \in [StaleOn(Cur, head, Fuel) -> Str] :
         \E r \in {IF qs = "null" THEN Null(FALSE) ELSE q_sort(Cur, gv)} :
             \/ /\ Returns(r)
                /\ Observe("q_sort", FALSE, 0, <<>>, -1)
                /\ Ghost(net, "idle", <<>>)
                /\ UNCHANGED qs
             \/ Stops("q_sort", r)

\* q_free: the queue structure itself is released after the cells; the caller's
\* pointer is dead afterwards.
Q_free ==
    /\ status = "ok" /\ qs # "freed"
    /\ \E r \in {IF qs = "null" THEN Null(FALSE) ELSE q_free(Cur)} :
           \/ /\ Returns(r)
              /\ qs' = IF qs = "null" THEN "null" ELSE "freed"
              /\ Observe("q_free", FALSE, 0, <<>>, -1)
              /\ Ghost(net, "idle", <<>>)
           \/ Stops("q_free", r)

Next ==
    \/ Q_insert_head
    \/ Q_insert_tail
    \/ Q_remove_head
    \/ Q_size
    \/ Q_reverse
    \/ Q_sort
    \/ Q_free

Spec == Init /\ [][Next]_vars

\* ------------------------------------------------------------------ the split step
\* mergeSortList's split step on its own, on chains longer than the cells the
\* callers above can allocate.
ChainAddr == 1..MaxChain

\* The chains of n distinct cells.
ChainsOf(n) == {ch \in [1..n -> ChainAddr] : \A i, j \in 1..n : ch[i] = ch[j] => i = j}

\* mergeSortList is entered with head at the chain ch of n >= 2 cells.
SplitInitChain(n, ch) ==
    /\ qs = "live"
    /\ head = ch[1] /\ tail = ch[n] /\ size = n
    /\ next = [a \in ChainAddr |->
                 IF \E i \in 1..(n - 1) : ch[i] = a
                 THEN ch[(CHOOSE i \in 1..(n - 1) : ch[i] = a) + 1]
                 ELSE NULL]
    /\ value = [a \in ChainAddr |-> IF \E i \in 1..n : ch[i] = a THEN <<1>> ELSE <<>>]
    /\ nodes = {ch[i] : i \in 1..n} /\ bufs = {ch[i] : i \in 1..n}
    /\ status = "ok" /\ uaf = FALSE
    /\ lastOp = "mergeSortList" /\ ret = FALSE /\ rsize = 0 /\ sp = <<>>
    /\ spcap = -1 /\ mfail = "none"
    /\ net = n /\ rtPhase = "idle" /\ rtPending = <<>>
    /\ fastHalf = NULL

SplitInit ==
    \E n \in 2..MaxChain : \E ch \in ChainsOf(n) : SplitInitChain(n, ch)

\* `fast = head->next; slow = head; while (...) ...; fast = slow->next;
\* slow->next = NULL;`
SplitStep ==
    /\ lastOp = "mergeSortList"
    /\ \E r \in {Split(Cur, head)} :
           /\ r.fault = "none"
           /\ next' = r.c.next /\ head' = r.l1 /\ fastHalf' = r.l2 /\ uaf' = r.uaf
    /\ lastOp' = "split"
    /\ UNCHANGED <<qs, tail, size, value, nodes, bufs, status, ret, rsize, sp,
                   spcap, mfail, net, rtPhase, rtPending>>

SplitNext == SplitStep

SplitSpec == SplitInit /\ [][SplitNext]_vars

\* ------------------------------------------------------------------ reading a state
\* The cells on the chain from p, front to back.
RECURSIVE ChainFrom(_, _, _)
ChainFrom(c, p, fuel) ==
    IF p = NULL \/ fuel = 0 THEN <<>>
    ELSE <<p>> \o ChainFrom(c, c.next[p], fuel - 1)

Chain(c) == ChainFrom(c, c.head, Fuel)

\* The values of the container, front to back.
Contents(c) == [i \in 1..Len(Chain(c)) |-> c.value[Chain(c)[i]]]

\* The cell k next-links after p (NULL when the chain ends before).
RECURSIVE Nth(_, _, _)
Nth(c, p, k) ==
    IF p = NULL \/ k = 0 THEN p ELSE Nth(c, c.next[p], k - 1)

RECURSIVE Rev(_)
Rev(s) == IF s = <<>> THEN <<>> ELSE Append(Rev(Tail(s)), Head(s))

\* The strings on the chain of c, front to back, with gv what is read behind
\* the released cells.
Strings(c, gv) == [i \in 1..Len(Chain(c)) |-> ValueAt(c, gv, Chain(c)[i])]

\* No string is greater under strcmp than the one after it.
Ascending(s) == \A i \in 1..(Len(s) - 1) : strcmp(s[i], s[i + 1]) <= 0

\* The set of the elements of a sequence.
Range(s) == {s[i] : i \in 1..Len(s)}

\* tail is the last cell of the chain from head (NULL when there is none).
TailIsLast(c) ==
    IF c.head = NULL THEN c.tail = NULL
    ELSE c.tail = Chain(c)[Len(Chain(c))] /\ c.next[c.tail] = NULL

\* A created container whose last operation returned.
Live == qs = "live" /\ status = "ok"

\* ------------------------------------------------------------------ claims
\* C1: after every public operation the count is 0 if and only if head and
\* tail are both NULL.
C1_CountZeroIffEmpty ==
    Live => ((size = 0) <=> (head = NULL /\ tail = NULL))

\* C2: after every public operation, if the count is at least 1 then count - 1
\* next-links lead from head to the cell at tail, whose next-link is NULL.
C2_ChainReachesTail ==
    (Live /\ size >= 1) =>
        /\ head # NULL /\ tail # NULL
        /\ Nth(Cur, head, size - 1) = tail
        /\ next[tail] = NULL

\* C3: q_size returns the number of insertions that returned true minus the
\* number of removals that returned true, and that is the count kept.
C3_SizeIsNet ==
    /\ (lastOp = "q_size" /\ status = "ok") => rsize = net
    /\ Live => size = net

C3_Witness ==
    /\ Live /\ lastOp = "q_size" /\ rsize = 2
    /\ Len(Chain(Cur)) = 2 /\ tail = Chain(Cur)[2] /\ Cardinality(nodes) = 2

\* C4: on a container of count 0, k successful q_insert_tail calls followed by
\* k q_remove_head calls: each removal returns true and yields the values in
\* the order they were inserted, the last one leaving the count 0.
C4_FifoRoundTrip ==
    [][(/\ lastOp' = "q_remove_head" /\ status' = "ok"
        /\ rtPhase \in {"insert", "remove"} /\ rtPending # <<>>)
       => /\ ret'
          /\ spcap' > Len(Head(rtPending)) => CString(sp') = Head(rtPending)
          /\ Len(rtPending) = 1 => size' = 0]_vars

\* C5: an insertion whose cell or value buffer cannot be allocated returns
\* false and leaves the anchors, the count, every link and every allocation
\* as they were.
C5_FailedInsertChangesNothing ==
    [][(lastOp' \in {"q_insert_head", "q_insert_tail"} /\ mfail' # "none")
       => /\ status' = "ok" /\ ~ret'
          /\ UNCHANGED <<qs, heapvars>>]_vars

C5_Witness ==
    /\ Live /\ lastOp = "q_insert_head" /\ mfail = "value" /\ ~ret
    /\ size = 2 /\ Cardinality(nodes) = 2 /\ bufs = nodes

\* C6: q_remove_head on a null queue or on one without nodes returns false,
\* writes nothing to the buffer and leaves head, tail and the count unchanged.
C6_RemoveFromEmpty ==
    [][(/\ lastOp' = "q_remove_head"
        /\ status = "ok"
        /\ qs = "null" \/ head = NULL \/ size = 0)
       => /\ status' = "ok" /\ ~ret' /\ sp' = <<>>
          /\ UNCHANGED <<qs, heapvars>>]_vars

C6_Witness ==
    /\ Live /\ lastOp = "q_remove_head" /\ ~ret
    /\ spcap > 0 /\ size = 0 /\ head = NULL /\ tail # NULL

\* C7: q_remove_head with a buffer of capacity C copies exactly min(L, C - 1)
\* bytes of the value of length L and a terminator when C >= 1, and never
\* writes at or beyond offset C; with C = 0 nothing is written.
C7_BoundedCopy ==
    [][(/\ lastOp' = "q_remove_head" /\ status' = "ok" /\ ret'
        /\ spcap' >= 0 /\ head \in nodes)
       => LET v == value[head]
              n == Min(Len(v), spcap' - 1)
          IN  /\ Len(sp') <= spcap'
              /\ spcap' >= 1 =>
                   /\ SubSeq(sp', 1, n) = SubSeq(v, 1, n)
                   /\ sp'[n + 1] = 0]_vars

\* C8: a successful q_insert_head(v) on contents S gives <<v>> \o S, and a
\* successful q_insert_tail(v) gives S \o <<v>>.
C8_InsertionPlacement ==
    [][/\ (lastOp' = "q_insert_head" /\ status' = "ok" /\ ret')
          => Contents(Cur)' = <<value'[head']>> \o Contents(Cur)
       /\ (lastOp' = "q_insert_tail" /\ status' = "ok" /\ ret')
          => Contents(Cur)' = Append(Contents(Cur), value'[tail'])]_vars

\* C9: q_reverse on a chain of n >= 2 cells leaves the same cells in the
\* reverse order, the old head at tail and the old tail at head, the count and
\* the allocations unchanged, and tail the last cell of the chain.
C9_ReverseReverses ==
    [][(lastOp' = "q_reverse" /\ status' = "ok" /\ Len(Chain(Cur)) >= 2)
       => /\ Chain(Cur)' = Rev(Chain(Cur))
          /\ tail' = head /\ head' = tail
          /\ size' = size /\ nodes' = nodes /\ bufs' = bufs
          /\ next'[tail'] = NULL]_vars

\* C10: q_reverse applied twice restores the order of the values and the cells
\* at head and tail.
C10_ReverseTwice ==
    Live =>
        LET r1 == q_reverse(Cur)
            r2 == q_reverse(r1.c)
        IN  /\ r1.fault = "none" /\ r2.fault = "none"
            /\ Contents(r2.c) = Contents(Cur)
            /\ r2.c.head = head /\ r2.c.tail = tail

\* C11: q_reverse on a null queue, on a container of count 0 or 1, or on one
\* whose chain from head is at most one cell of its own, returns and leaves
\* head, tail, the count, every next-link and every value as they were.
C11_ReverseNoOp ==
    [][(/\ lastOp' = "q_reverse" /\ status = "ok"
        /\ \/ qs = "null"
           \/ size <= 1
           \/ head = NULL
           \/ head \in nodes /\ next[head] = NULL)
       => /\ status' = "ok"
          /\ UNCHANGED <<qs, heapvars>>]_vars

C11_Witness ==
    /\ Live /\ lastOp = "q_reverse"
    /\ size = 1 /\ head \in nodes /\ next[head] = NULL /\ tail = head
    /\ value[head] = <<1, 2>>

\* C12: after q_sort has returned, every pair of adjacent strings on the chain
\* from head is in strcmp order (a released cell on the chain is read as some
\* string).
C12_SortedAdjacent ==
    [][(lastOp' = "q_sort" /\ status' = "ok")
       => \E gv \in [StaleOn(Cur', head', Fuel) -> Str] :
              Ascending(Strings(Cur', gv))]_vars

C12_Witness ==
    /\ Live /\ lastOp = "q_sort" /\ ~uaf
    /\ Chain(Cur) = <<2, 3, 1>>
    /\ Contents(Cur) = <<<<1>>, <<1, 2>>, <<2>>>>
    /\ size = 3 /\ tail = 1

\* C13: q_sort that returns leaves on the chain from head exactly the cells
\* that were on it, each once and with its string, allocates and releases
\* nothing, and leaves the count as it was.
C13_SortPreservesCells ==
    [][(lastOp' = "q_sort" /\ status' = "ok")
       => /\ Range(Chain(Cur)') = Range(Chain(Cur))
          /\ Len(Chain(Cur)') = Len(Chain(Cur))
          /\ \A a \in Range(Chain(Cur)) : value'[a] = value[a]
          /\ nodes' = nodes /\ bufs' = bufs
          /\ size' = size]_vars

C13_Witness ==
    /\ Live /\ lastOp = "q_sort" /\ ~uaf
    /\ Chain(Cur) = <<3, 1, 2>>
    /\ Contents(Cur) = <<<<1>>, <<1>>, <<2>>>>
    /\ nodes = {1, 2, 3} /\ bufs = nodes /\ size = 3

\* C14: after q_sort has returned on a chain of n >= 2 cells, tail is the cell
\* n - 1 next-links after head, and its next-link is NULL.
C14_TailAfterSort ==
    [][(lastOp' = "q_sort" /\ status' = "ok" /\ Len(Chain(Cur)) >= 2)
       => /\ tail' = Nth(Cur', head', Len(Chain(Cur)) - 1)
          /\ tail' # NULL
          /\ next'[tail'] = NULL]_vars

\* The second q_sort r2 left what the first one r1 left: the strings in their
\* order, the count, and tail the last cell if it was.
SameAfterSecondSort(gv, r1, r2) ==
    /\ Strings(r2.c, gv) = Strings(r1.c, gv)
    /\ r2.c.size = r1.c.size
    /\ r2.c.nodes = r1.c.nodes /\ r2.c.bufs = r1.c.bufs
    /\ TailIsLast(r1.c) => TailIsLast(r2.c)

\* C15: in every reachable container, a second q_sort leaves the strings in
\* the order the first q_sort left them, with the same count and with tail the
\* last cell if the first left it so.
C15_SortIdempotent ==
    Live =>
        \A gv \in [StaleOn(Cur, head, Fuel) -> Str] :
            \A r1 \in {q_sort(Cur, gv)} :
                \A r2 \in {q_sort(r1.c, gv)} :
                    (r1.fault = "none" /\ r2.fault = "none")
                        => SameAfterSecondSort(gv, r1, r2)

\* A sorted chain with two equal strings: the second q_sort orders the cells
\* differently.
C15_Witness ==
    /\ Live /\ lastOp = "q_sort" /\ ~uaf
    /\ Contents(Cur) = <<<<1>>, <<1>>, <<2>>>>
    /\ TailIsLast(Cur)
    /\ q_sort(Cur, <<>>).fault = "none"
    /\ Chain(q_sort(Cur, <<>>).c) # Chain(Cur)

\* C16: q_sort on a null queue, on a container of count 0 (new or emptied by
\* removals) or on one of a single cell returns, leaves every anchor, link,
\* value and the count as they were, and touches no released cell.
C16_SortNoOp ==
    [][(/\ lastOp' = "q_sort" /\ status = "ok"
        /\ \/ qs = "null"
           \/ size <= 1
           \/ head = NULL
           \/ head \in nodes /\ next[head] = NULL)
       => /\ status' = "ok" /\ ~uaf'
          /\ UNCHANGED <<qs, heapvars>>]_vars

\* C17: q_free of a created container returns with every cell and every value
\* buffer released and the queue structure released, and releases nothing that
\* was released before.
C17_FreeReleasesAll ==
    [][(lastOp' = "q_free" /\ status = "ok" /\ qs = "live")
       => /\ status' = "ok" /\ qs' = "freed"
          /\ nodes' = {} /\ bufs' = {}
          /\ ~uaf']_vars

\* C18: the split step on a chain of n >= 2 cells leaves a first half of
\* ceil(n/2) cells at head and a second half of floor(n/2) cells at fast, both
\* non-empty and ended by a NULL next-link, which together are the cells of the
\* chain in their order.
C18_SplitHalves ==
    [][(lastOp' = "split")
       => LET ch == Chain(Cur)
              n == Len(ch)
              a == ChainFrom(Cur', head', Fuel)
              b == ChainFrom(Cur', fastHalf', Fuel)
          IN  /\ Len(a) = (n + 1) \div 2 /\ Len(b) = n \div 2
              /\ Len(a) >= 1 /\ Len(b) >= 1
              /\ Len(a) - Len(b) \in {0, 1}
              /\ next'[a[Len(a)]] = NULL /\ next'[b[Len(b)]] = NULL
              /\ a \o b = ch
              /\ ~uaf']_vars

C18_Witness ==
    /\ lastOp = "split" /\ size = 5
    /\ ChainFrom(Cur, head, Fuel) = <<4, 2, 5>>
    /\ ChainFrom(Cur, fastHalf, Fuel) = <<1, 3>>

\* C19: no operation on a container that is not yet destroyed reads, writes or
\* releases a cell that was released before, and none faults.
C19_NoUseAfterRelease ==
    ~uaf /\ status # "crashed"

\* C20: every call returns: no reachable container holds a cycle of next-links
\* that a loop of q_insert_head, q_reverse, q_sort or q_free follows for ever.
C20_EveryCallReturns ==
    status # "hung"

====
